---- MODULE Spec2Model ----
(***************************************************************************)
(* Model of the WebDAV uploader plugin (src/main.ts): the remote store     *)
(* client (request, webdavExists, webdavCreateDirectory, webdavPut), the   *)
(* path resolver (calculateRemotePath and the sync-folder branch of        *)
(* uploadFile) and the upload orchestrator (the drop handler loop and      *)
(* uploadFile).                                                            *)
(*                                                                         *)
(* A string is a sequence of characters, each character a one-character    *)
(* string: "/a" is <<"/", "a">>.  "\\" is the backslash.                   *)
(***************************************************************************)
EXTENDS Integers, Sequences, FiniteSets, TLC

----------------------------------------------------------------------------
(* JavaScript string primitives used by the source.                        *)

Slash == "/"
Backslash == "\\"

IsSep(c) == c = Slash \/ c = Backslash

\* s.startsWith(p)
StartsWith(s, p) ==
    /\ Len(p) <= Len(s)
    /\ \A i \in 1..Len(p) : s[i] = p[i]

\* s.includes(p)
Includes(s, p) ==
    \E k \in 0..(Len(s) - Len(p)) :
        \A i \in 1..Len(p) : s[k + i] = p[i]

\* s.slice(n) for n >= 0
Slice(s, n) == IF n >= Len(s) THEN << >> ELSE SubSeq(s, n + 1, Len(s))

\* s.replace(/\\/g, '/')
ReplaceBackslashes(s) == [i \in 1..Len(s) |-> IF s[i] = Backslash THEN Slash ELSE s[i]]

\* s.replace(/[\/\\]/g, '/'): the same mapping, written with both separators
ReplaceSeparators(s) == [i \in 1..Len(s) |-> IF IsSep(s[i]) THEN Slash ELSE s[i]]

\* s.replace(/[\\\/]+$/, ''): strip every trailing separator
RECURSIVE StripTrailingSeps(_)
StripTrailingSeps(s) ==
    IF Len(s) > 0 /\ IsSep(s[Len(s)])
    THEN StripTrailingSeps(SubSeq(s, 1, Len(s) - 1))
    ELSE s

\* s.replace(/\/$/, ''): strip one trailing '/'
StripOneTrailingSlash(s) ==
    IF Len(s) > 0 /\ s[Len(s)] = Slash THEN SubSeq(s, 1, Len(s) - 1) ELSE s

\* s.replace(/^[\/\\]/, ''): strip one leading separator
StripOneLeadingSep(s) ==
    IF Len(s) > 0 /\ IsSep(s[1]) THEN Slice(s, 1) ELSE s

\* String.prototype.toLowerCase on one character.  "I*" stands for U+0130
\* (capital I with dot above), whose lower case is the two code units
\* U+0069 U+0307, written <<"i", "*">>: case folding can change the length.
LowerChar(c) ==
    CASE c = "A" -> <<"a">>
      [] c = "B" -> <<"b">>
      [] c = "C" -> <<"c">>
      [] c = "M" -> <<"m">>
      [] c = "S" -> <<"s">>
      [] c = "U" -> <<"u">>
      [] c = "I*" -> <<"i", "*">>
      [] OTHER -> <<c>>

\* s.toLowerCase()
RECURSIVE ToLowerCase(_)
ToLowerCase(s) ==
    IF s = << >> THEN << >> ELSE LowerChar(Head(s)) \o ToLowerCase(Tail(s))

\* if (!s.startsWith('/')) s = '/' + s
EnsureLeadingSlash(s) == IF StartsWith(s, <<Slash>>) THEN s ELSE <<Slash>> \o s

----------------------------------------------------------------------------
(* Node's path.posix, as called by the source.                             *)

\* s.split('/'): the segments between slashes, empty ones included
RECURSIVE SplitFrom(_, _, _)
SplitFrom(s, i, cur) ==
    IF i > Len(s) THEN <<cur>>
    ELSE IF s[i] = Slash THEN <<cur>> \o SplitFrom(s, i + 1, << >>)
    ELSE SplitFrom(s, i + 1, Append(cur, s[i]))

Split(s) == SplitFrom(s, 1, << >>)

\* segs.join('/')
RECURSIVE JoinSegs(_)
JoinSegs(segs) ==
    IF segs = << >> THEN << >>
    ELSE IF Len(segs) = 1 THEN segs[1]
    ELSE segs[1] \o <<Slash>> \o JoinSegs(Tail(segs))

Dot == <<".">>
DotDot == <<".", ".">>

\* normalizeString of path.posix: drop empty and '.' segments, resolve '..'
RECURSIVE NormalizeSegs(_, _, _)
NormalizeSegs(segs, res, allowAboveRoot) ==
    IF segs = << >> THEN res
    ELSE LET seg == Head(segs)
             rest == Tail(segs)
         IN IF seg = << >> \/ seg = Dot
            THEN NormalizeSegs(rest, res, allowAboveRoot)
            ELSE IF seg = DotDot
            THEN IF res # << >> /\ res[Len(res)] # DotDot
                 THEN NormalizeSegs(rest, SubSeq(res, 1, Len(res) - 1), allowAboveRoot)
                 ELSE IF allowAboveRoot
                      THEN NormalizeSegs(rest, Append(res, DotDot), allowAboveRoot)
                      ELSE NormalizeSegs(rest, res, allowAboveRoot)
            ELSE NormalizeSegs(rest, Append(res, seg), allowAboveRoot)

\* path.posix.normalize(p)
PosixNormalize(p) ==
    IF p = << >> THEN Dot
    ELSE LET isAbsolute == p[1] = Slash
             trailingSeparator == p[Len(p)] = Slash
             body == JoinSegs(NormalizeSegs(Split(p), << >>, ~isAbsolute))
         IN IF body = << >>
            THEN IF isAbsolute THEN <<Slash>>
                 ELSE IF trailingSeparator THEN <<".", Slash>> ELSE Dot
            ELSE (IF isAbsolute THEN <<Slash>> ELSE << >>)
                 \o body
                 \o (IF trailingSeparator THEN <<Slash>> ELSE << >>)

\* path.posix.join(a, b): empty arguments are skipped
PosixJoin(a, b) ==
    IF a = << >> /\ b = << >> THEN Dot
    ELSE IF a = << >> THEN PosixNormalize(b)
    ELSE IF b = << >> THEN PosixNormalize(a)
    ELSE PosixNormalize(a \o <<Slash>> \o b)

\* path.posix.dirname(p): the scan for the last slash that is not trailing
RECURSIVE DirnameEnd(_, _, _)
DirnameEnd(p, i, matchedSlash) ==
    IF i < 2 THEN 0
    ELSE IF p[i] = Slash
         THEN IF ~matchedSlash THEN i ELSE DirnameEnd(p, i - 1, matchedSlash)
         ELSE DirnameEnd(p, i - 1, FALSE)

PosixDirname(p) ==
    IF p = << >> THEN Dot
    ELSE LET hasRoot == p[1] = Slash
             end == DirnameEnd(p, Len(p), TRUE)
         IN IF end = 0 THEN (IF hasRoot THEN <<Slash>> ELSE Dot)
            ELSE IF hasRoot /\ end = 2 THEN <<Slash, Slash>>
            ELSE SubSeq(p, 1, end - 1)

\* path.win32.dirname(p) helpers: index of the first position >= j whose
\* character is (sep = TRUE) or is not (sep = FALSE) a separator; Len(p)+1 if none
RECURSIVE SkipTo(_, _, _)
SkipTo(p, j, sep) ==
    IF j > Len(p) THEN j
    ELSE IF IsSep(p[j]) = sep THEN j
    ELSE SkipTo(p, j + 1, sep)

IsDriveLetter(c) == c \in {"a", "b", "c", "A", "B", "C"}

\* rootEnd of path.win32.dirname as a count of characters: -1 no root,
\* -2 the path is a bare UNC root and is returned whole
Win32RootEnd(p) ==
    IF IsSep(p[1])
    THEN IF IsSep(p[2])
         THEN LET j1 == SkipTo(p, 3, TRUE)
              IN IF j1 <= Len(p) /\ j1 # 3
                 THEN LET j2 == SkipTo(p, j1, FALSE)
                      IN IF j2 <= Len(p) /\ j2 # j1
                         THEN LET j3 == SkipTo(p, j2, TRUE)
                              IN IF j3 > Len(p) THEN -2
                                 ELSE IF j3 # j2 THEN j3
                                 ELSE 1
                         ELSE 1
                 ELSE 1
         ELSE 1
    ELSE IF IsDriveLetter(p[1]) /\ p[2] = ":"
         THEN IF Len(p) > 2 /\ IsSep(p[3]) THEN 3 ELSE 2
         ELSE -1

RECURSIVE Win32DirnameEnd(_, _, _, _)
Win32DirnameEnd(p, i, offset, matchedSlash) ==
    IF i <= offset THEN 0
    ELSE IF IsSep(p[i])
         THEN IF ~matchedSlash THEN i ELSE Win32DirnameEnd(p, i - 1, offset, matchedSlash)
         ELSE Win32DirnameEnd(p, i - 1, offset, FALSE)

\* path.win32.dirname(p)
Win32Dirname(p) ==
    IF p = << >> THEN Dot
    ELSE IF Len(p) = 1 THEN (IF IsSep(p[1]) THEN p ELSE Dot)
    ELSE LET rootEnd == Win32RootEnd(p)
         IN IF rootEnd = -2 THEN p
            ELSE LET offset == IF rootEnd = -1 THEN 0 ELSE rootEnd
                     end == Win32DirnameEnd(p, Len(p), offset, TRUE)
                 IN IF end = 0
                    THEN IF rootEnd = -1 THEN Dot ELSE SubSeq(p, 1, rootEnd)
                    ELSE SubSeq(p, 1, end - 1)

\* path.dirname(p): the host platform's implementation
PathDirname(platform, p) ==
    IF platform = "win32" THEN Win32Dirname(p) ELSE PosixDirname(p)

----------------------------------------------------------------------------
(* The path resolver.  cfg is the settings record (WebDAVUploaderSettings):  *)
(* pathMode, preferExistingLink, localSyncFolder, remoteSyncFolder,          *)
(* rootFolder, pathMappings (a sequence of [localPath, remotePath]),         *)
(* webdavUrl, username and password.                                         *)

\* The local-branch loop with a prefix test in place of includes
RECURSIVE BestMatchLocalPrefix(_, _, _)
BestMatchLocalPrefix(maps, fileDir, n) ==
    IF n = 0 THEN 0
    ELSE LET best == BestMatchLocalPrefix(maps, fileDir, n - 1)
         IN IF StartsWith(fileDir, ReplaceBackslashes(maps[n].localPath))
               /\ (best = 0 \/ Len(maps[n].localPath) > Len(maps[best].localPath))
            THEN n
            ELSE best

\* The loop over pathMappings of calculateRemotePath, local branch: the index
\* of bestMatch after the first n mappings, 0 for null.
RECURSIVE BestMatchLocal(_, _, _)
BestMatchLocal(maps, fileDir, n) ==
    IF n = 0 THEN 0
    ELSE LET best == BestMatchLocal(maps, fileDir, n - 1)
             normalizedMapping == ReplaceBackslashes(maps[n].localPath)
         IN IF Includes(fileDir, normalizedMapping)
               /\ (best = 0 \/ Len(maps[n].localPath) > Len(maps[best].localPath))
            THEN n
            ELSE best

\* The note-branch loop without the length comparison: the last match wins.
RECURSIVE BestMatchNoteLastWins(_, _, _)
BestMatchNoteLastWins(maps, noteParentPath, n) ==
    IF n = 0 THEN 0
    ELSE IF StartsWith(noteParentPath, maps[n].localPath)
         THEN n
         ELSE BestMatchNoteLastWins(maps, noteParentPath, n - 1)

\* The loop over pathMappings of calculateRemotePath, note branch.
RECURSIVE BestMatchNote(_, _, _)
BestMatchNote(maps, noteParentPath, n) ==
    IF n = 0 THEN 0
    ELSE LET best == BestMatchNote(maps, noteParentPath, n - 1)
         IN IF StartsWith(noteParentPath, maps[n].localPath)
               /\ (best = 0 \/ Len(maps[n].localPath) > Len(maps[best].localPath))
            THEN n
            ELSE best

\* calculateRemotePath takes the local branch
UsesLocalBranch(cfg, filePath) == cfg.pathMode = "local" /\ filePath # << >>

\* bestMatch of calculateRemotePath, as an index into pathMappings (0: null)
BestMatch(cfg, platform, noteParentPath, filePath) ==
    IF UsesLocalBranch(cfg, filePath)
    THEN BestMatchLocal(cfg.pathMappings,
                        ReplaceBackslashes(PathDirname(platform, filePath)),
                        Len(cfg.pathMappings))
    ELSE BestMatchNote(cfg.pathMappings, noteParentPath, Len(cfg.pathMappings))

\* remoteFolder that appends the whole note folder to the mapping's remotePath
RemoteFolderWithoutStripping(cfg, platform, noteParentPath, filePath) ==
    LET best == BestMatch(cfg, platform, noteParentPath, filePath)
    IN IF UsesLocalBranch(cfg, filePath)
       THEN IF best # 0 THEN cfg.pathMappings[best].remotePath ELSE cfg.rootFolder
       ELSE IF best # 0
            THEN StripOneTrailingSlash(cfg.pathMappings[best].remotePath)
                     \o <<Slash>> \o ReplaceSeparators(noteParentPath)
            ELSE PosixJoin(cfg.rootFolder, noteParentPath)

\* remoteFolder of calculateRemotePath before the leading-slash fix
RemoteFolder(cfg, platform, noteParentPath, filePath) ==
    LET best == BestMatch(cfg, platform, noteParentPath, filePath)
    IN IF UsesLocalBranch(cfg, filePath)
       THEN IF best # 0 THEN cfg.pathMappings[best].remotePath ELSE cfg.rootFolder
       ELSE IF best # 0
            THEN LET relativePath == Slice(noteParentPath, Len(cfg.pathMappings[best].localPath))
                     cleanRelative == ReplaceSeparators(StripOneLeadingSep(relativePath))
                     cleanRemote == StripOneTrailingSlash(cfg.pathMappings[best].remotePath)
                 IN cleanRemote \o <<Slash>> \o cleanRelative
            ELSE PosixJoin(cfg.rootFolder, noteParentPath)

\* calculateRemotePath that concatenates folder and name instead of joining
CalculateRemotePathConcat(cfg, platform, noteParentPath, filePath, fileName) ==
    EnsureLeadingSlash(RemoteFolder(cfg, platform, noteParentPath, filePath))
        \o <<Slash>> \o fileName

\* calculateRemotePath(file, activeFile, filePath)
CalculateRemotePath(cfg, platform, noteParentPath, filePath, fileName) ==
    PosixJoin(EnsureLeadingSlash(RemoteFolder(cfg, platform, noteParentPath, filePath)),
              fileName)

\* uploadFile, local mode: the sync-folder branch is taken
SyncConfigured(cfg, filePath) ==
    cfg.localSyncFolder # << >> /\ cfg.remoteSyncFolder # << >> /\ filePath # << >>

\* The containment test without toLowerCase
InsideSyncFolderCaseSensitive(cfg, filePath) ==
    StartsWith(ReplaceBackslashes(filePath),
               ReplaceBackslashes(StripTrailingSeps(cfg.localSyncFolder)))

\* uploadFile: lowerFilePath.startsWith(normalizedLocalSync)
InsideSyncFolder(cfg, filePath) ==
    LET normalizedLocalSync ==
            ToLowerCase(ReplaceBackslashes(StripTrailingSeps(cfg.localSyncFolder)))
        lowerFilePath == ToLowerCase(ReplaceBackslashes(filePath))
    IN StartsWith(lowerFilePath, normalizedLocalSync)

\* uploadFile: relativePath of a file inside the sync folder
SyncRelativePath(cfg, filePath) ==
    StripOneLeadingSep(Slice(ReplaceBackslashes(filePath),
                             Len(StripTrailingSeps(cfg.localSyncFolder))))

\* uploadFile: remoteFilePath of a file inside the sync folder
SyncRemotePath(cfg, filePath) ==
    LET remoteBase == StripOneTrailingSlash(cfg.remoteSyncFolder)
    IN EnsureLeadingSlash(PosixJoin(remoteBase, SyncRelativePath(cfg, filePath)))

\* PathBranch with the local-link branch lost: a file outside the sync folder
\* falls through to the mapping resolver.
PathBranchWithoutLocalLink(cfg, filePath) ==
    IF cfg.pathMode = "local" /\ SyncConfigured(cfg, filePath) /\ InsideSyncFolder(cfg, filePath)
    THEN "sync"
    ELSE "mapping"

\* The branch uploadFile takes for a file: "sync" (inside the sync folder),
\* "outside" (local link) or "mapping" (calculateRemotePath)
PathBranch(cfg, filePath) ==
    IF cfg.pathMode = "local"
    THEN IF SyncConfigured(cfg, filePath)
         THEN IF InsideSyncFolder(cfg, filePath) THEN "sync" ELSE "outside"
         ELSE "mapping"
    ELSE "mapping"

\* remoteFilePath of uploadFile once the branch is taken ('' for a local link)
ResolveRemotePath(cfg, platform, noteParentPath, filePath, fileName) ==
    CASE PathBranch(cfg, filePath) = "sync" -> SyncRemotePath(cfg, filePath)
      [] PathBranch(cfg, filePath) = "outside" -> << >>
      [] OTHER -> CalculateRemotePath(cfg, platform, noteParentPath, filePath, fileName)

----------------------------------------------------------------------------
(* The path simulator of the settings tab ("开始检查").                      *)

\* s.replace(/\/+/g, '/'): collapse every run of slashes
RECURSIVE CollapseSlashes(_)
CollapseSlashes(s) ==
    IF Len(s) < 2 THEN s
    ELSE IF s[1] = Slash /\ s[2] = Slash
         THEN CollapseSlashes(Tail(s))
         ELSE <<s[1]>> \o CollapseSlashes(Tail(s))

\* s.replace(/^\//, ''): strip one leading '/'
StripOneLeadingSlash(s) ==
    IF Len(s) > 0 /\ s[1] = Slash THEN Slice(s, 1) ELSE s

\* normalizedPath.split('/').pop() || 'file'
SimulatorFileName(normalizedPath) ==
    LET last == Split(normalizedPath)[Len(Split(normalizedPath))]
    IN IF last = << >> THEN <<"f", "i", "l", "e">> ELSE last

\* The simulator's loop over pathMappings (note mode), over the first n
\* mappings: an empty localPath never matches, and a '/' mapping takes an
\* empty note folder whatever was matched before.
RECURSIVE SimulatorBestMatch(_, _, _)
SimulatorBestMatch(maps, noteParentPath, n) ==
    IF n = 0 THEN 0
    ELSE LET before == SimulatorBestMatch(maps, noteParentPath, n - 1)
             matched == IF maps[n].localPath # << >>
                           /\ StartsWith(noteParentPath, maps[n].localPath)
                           /\ (before = 0
                               \/ Len(maps[n].localPath) > Len(maps[before].localPath))
                        THEN n
                        ELSE before
         IN IF maps[n].localPath = <<Slash>> /\ noteParentPath = << >>
            THEN n
            ELSE matched

\* The simulator, note mode with a note selected: remotePath
SimulatorNotePath(cfg, noteParentPath, fileName) ==
    LET best == SimulatorBestMatch(cfg.pathMappings, noteParentPath, Len(cfg.pathMappings))
    IN IF best # 0
       THEN LET relativePath ==
                    IF cfg.pathMappings[best].localPath = <<Slash>>
                    THEN noteParentPath
                    ELSE StripOneLeadingSlash(
                             Slice(noteParentPath, Len(cfg.pathMappings[best].localPath)))
                cleanRemote == StripOneTrailingSlash(cfg.pathMappings[best].remotePath)
            IN CollapseSlashes(cleanRemote \o <<Slash>> \o relativePath
                                   \o <<Slash>> \o fileName)
       ELSE CollapseSlashes(<<Slash>> \o noteParentPath \o <<Slash>> \o fileName)

\* The simulator, local mode: normalizedFilePath.startsWith(normalizedSync)
SimulatorInsideSyncFolder(cfg, normalizedPath) ==
    LET normalizedSync ==
            ToLowerCase(StripOneTrailingSlash(ReplaceBackslashes(cfg.localSyncFolder)))
    IN StartsWith(ToLowerCase(normalizedPath), normalizedSync)

\* The simulator, local mode, file inside the sync folder: remotePath
SimulatorSyncPath(cfg, normalizedPath) ==
    LET relativePath == StripOneLeadingSep(Slice(normalizedPath, Len(cfg.localSyncFolder)))
        remoteBase == StripOneTrailingSlash(cfg.remoteSyncFolder)
    IN EnsureLeadingSlash(
           CollapseSlashes(ReplaceBackslashes(remoteBase \o <<Slash>> \o relativePath)))

\* What the simulator displays for testPath and the selected note
\* (noteSelected: a note is chosen; exists: the answer of webdavExists):
\* kind "local" (local link), "remote" (remote path, with the predicted
\* behaviour) or "none" (cannot compute a remote path).
Simulation(cfg, testPath, noteSelected, noteParentPath, exists) ==
    LET normalizedPath == ReplaceBackslashes(testPath)
        fileName == SimulatorFileName(normalizedPath)
        isLocalLink ==
            /\ cfg.pathMode # "note"
            /\ \/ cfg.localSyncFolder = << >>
               \/ cfg.remoteSyncFolder = << >>
               \/ ~SimulatorInsideSyncFolder(cfg, normalizedPath)
        computed ==
            IF cfg.pathMode = "note"
            THEN IF noteSelected
                 THEN SimulatorNotePath(cfg, noteParentPath, fileName)
                 ELSE << >>
            ELSE IF isLocalLink THEN << >> ELSE SimulatorSyncPath(cfg, normalizedPath)
        remotePath == IF computed # << >> THEN EnsureLeadingSlash(computed) ELSE << >>
    IN IF isLocalLink
       THEN [kind |-> "local", remotePath |-> remotePath,
             exists |-> FALSE, willUpload |-> FALSE]
       ELSE IF remotePath # << >>
            THEN [kind |-> "remote", remotePath |-> remotePath,
                  exists |-> exists,
                  willUpload |-> ~exists \/ ~cfg.preferExistingLink]
            ELSE [kind |-> "none", remotePath |-> << >>,
                  exists |-> FALSE, willUpload |-> FALSE]

----------------------------------------------------------------------------
(* The remote store and the transport.                                     *)
(* The store is a set of collections (dirs) and a set of stored objects    *)
(* [path, bytes]; the root collection always exists.  A response is its    *)
(* HTTP status, 0 standing for a transport failure without a status.       *)

VARIABLES
    cfg,        \* this.settings
    platform,   \* "posix" or "win32": which path.dirname the host provides
    store,      \* the remote store: [dirs, files]
    hd,         \* per drop event: the handler's position and locals
    doc,        \* the editor: the links inserted, in document order
    notices,    \* the Notices shown, in order
    sim         \* state of the pure-function and directory specifications

vars == <<cfg, platform, store, hd, doc, notices, sim>>

NotFound == 404

Root == <<Slash>>

ObjectAt(st, p) == {f \in st.files : f.path = p}

StoreHas(st, p) == p \in st.dirs \/ ObjectAt(st, p) # {}

\* What a WebDAV server answers, and the store it leaves: [status, store].
Serve(method, p, body, st) ==
    CASE method = "PROPFIND" ->
            [status |-> IF StoreHas(st, p) THEN 207 ELSE NotFound, store |-> st]
      [] method = "MKCOL" ->
            IF StoreHas(st, p) THEN [status |-> 405, store |-> st]
            ELSE IF PosixDirname(p) \notin st.dirs THEN [status |-> 409, store |-> st]
            ELSE [status |-> 201, store |-> [st EXCEPT !.dirs = @ \cup {p}]]
      [] method = "PUT" ->
            IF p \in st.dirs THEN [status |-> 405, store |-> st]
            ELSE IF PosixDirname(p) \notin st.dirs THEN [status |-> 409, store |-> st]
            ELSE [status |-> IF ObjectAt(st, p) # {} THEN 204 ELSE 201,
                  store |-> [st EXCEPT !.files =
                                (@ \ ObjectAt(st, p)) \cup {[path |-> p, bytes |-> body]}]]

\* Statuses with which the transport may answer any request without the store
\* acting on it: a 404 (a wrong base URL, a proxy) and a server error.  What
\* the client makes of every other status is the subject of SpecClient.
FaultStatuses == {NotFound, 500}

\* Every [status, store] a request can end with.  The specification of two
\* interleaved drops (sim.phase = "reliable") is over a transport that always
\* delivers the server's own answer.
Outcomes(method, p, body, st) ==
    {Serve(method, p, body, st)}
        \cup IF sim.phase = "reliable" THEN {}
             ELSE {[status |-> s, store |-> st] : s \in FaultStatuses}

\* The same over a transport that always delivers the server's own answer.
ReliableOutcomes(method, p, body, st) == {Serve(method, p, body, st)}

\* requestUrl throws on a transport failure and on a status of 400 and above
RequestUrlThrows(status) == status = 0 \/ status >= 400

\* request(): "response" (returned), "null" (404 caught) or "throw" (rethrown)
RequestResult(status) ==
    IF RequestUrlThrows(status)
    THEN IF status = NotFound THEN "null" ELSE "throw"
    ELSE "response"

\* webdavExists that takes only a 200 for success (a PROPFIND is answered 207)
WebdavExistsOnly200(status) ==
    IF RequestResult(status) = "throw" THEN "false"
    ELSE IF RequestResult(status) # "null" /\ status = 200 THEN "true" ELSE "false"

\* webdavExists with a catch block that swallows only the 404 and rethrows
\* every other error.
WebdavExistsRethrows(status) ==
    IF RequestResult(status) = "throw" THEN "throw"
    ELSE IF RequestResult(status) # "null" /\ status >= 200 /\ status < 300
         THEN "true"
         ELSE "false"

\* webdavExists(): "true" or "false" as returned, "throw" if it propagated an
\* error.  The catch block returns false for a 404 and for any other error.
WebdavExists(status) ==
    IF RequestResult(status) = "throw" THEN "false"
    ELSE IF RequestResult(status) # "null" /\ status >= 200 /\ status < 300
         THEN "true"
         ELSE "false"

\* webdavPut(): "return" when the awaited request returned, "throw" when it threw
WebdavPut(status) ==
    IF RequestResult(status) = "throw" THEN "throw" ELSE "return"

\* await this.request('MKCOL', currentPath) in webdavCreateDirectory
MkcolRequest(status) ==
    IF RequestResult(status) = "throw" THEN "throw" ELSE "return"

----------------------------------------------------------------------------
(* The inputs of the orchestrator's specification: settings, dropped files, *)
(* the active note's folder and the remote store's initial contents.        *)

MaxFiles == 2

S_s == <<"/", "s">>
S_r == <<"/", "r">>
S_m == <<"/", "m">>
S_n == <<"n">>
S_nk == <<"n", "/", "k">>

FileA == [path |-> <<"/", "s", "/", "a">>, name |-> <<"a">>, bytes |-> "bytesA"]
FileB == [path |-> <<"/", "x", "/", "b">>, name |-> <<"b">>, bytes |-> "bytesB"]
FileE == [path |-> << >>, name |-> <<"e">>, bytes |-> "bytesE"]

DropFiles == {FileA, FileB, FileE}

DropLists == UNION {[1..n -> DropFiles] : n \in 0..MaxFiles}

\* activeFile.parent ? activeFile.parent.path : '/'
DropNoteParents == {Root, S_nk}

SyncFolderSettings ==
    {[localSyncFolder |-> << >>, remoteSyncFolder |-> << >>],
     [localSyncFolder |-> S_s, remoteSyncFolder |-> S_r]}

MappingSettings == {<< >>, <<[localPath |-> S_n, remotePath |-> S_m]>>}

\* webdavUrl, username and password, each empty or set
CredentialSettings ==
    [webdavUrl : {"", "https://dav"}, username : {"", "user"}, password : {"", "secret"}]

Settings ==
    {[pathMode |-> m, preferExistingLink |-> pe,
      localSyncFolder |-> sf.localSyncFolder, remoteSyncFolder |-> sf.remoteSyncFolder,
      rootFolder |-> rf, pathMappings |-> pm,
      webdavUrl |-> c.webdavUrl, username |-> c.username, password |-> c.password] :
        m \in {"note", "local"}, pe \in BOOLEAN, sf \in SyncFolderSettings,
        rf \in {Root, << >>}, pm \in MappingSettings, c \in CredentialSettings}

\* !this.settings.webdavUrl || !this.settings.username || !this.settings.password
Unconfigured(c) == c.webdavUrl = "" \/ c.username = "" \/ c.password = ""

InitStores ==
    {[dirs |-> {Root}, files |-> {}],
     [dirs |-> {Root, S_r, S_m},
      files |-> {[path |-> <<"/", "r", "/", "a">>, bytes |-> "bytesOld"]}]}

Handlers == {"d1"}

NoSim == [phase |-> "off"]

----------------------------------------------------------------------------
(* The upload orchestrator: the drop handler and uploadFile.  Every await  *)
(* on the transport or on the file's bytes is one action; the code between *)
(* two awaits runs without interruption and belongs to the action of the   *)
(* await it follows.                                                       *)

NoBytes == "none"

IdleHandler ==
    [pc |-> "idle", view |-> "none", noteParent |-> << >>, files |-> << >>,
     i |-> 0, remoteFilePath |-> << >>, parts |-> << >>, k |-> 0,
     currentPath |-> << >>, fileBuffer |-> NoBytes, methods |-> {}, puts |-> << >>,
     mkcols |-> {}, probe |-> "none", outcomes |-> << >>]

CurFile(r) == r.files[r.i]

\* EndFile that keeps only the outcome of the file that ended last
EndFileKeepsLastOutcome(r, outcome) ==
    [r EXCEPT !.outcomes = <<[decision |-> outcome.decision,
                              result |-> outcome.result,
                              remotePath |-> r.remoteFilePath,
                              probe |-> r.probe,
                              methods |-> r.methods, puts |-> r.puts,
                              mkcols |-> r.mkcols]>>,
              !.methods = {}, !.puts = << >>, !.mkcols = {}, !.probe = "none",
              !.i = @ + 1,
              !.pc = IF r.i + 1 > Len(r.files) THEN "done" ELSE "start",
              !.remoteFilePath = << >>, !.parts = << >>, !.k = 0,
              !.currentPath = << >>, !.fileBuffer = NoBytes]

\* One iteration of the drop handler's loop ends; the next begins or the
\* handler returns.  The file's outcome records its decision, its result, its
\* remoteFilePath, what the probe of remoteFilePath returned ("none": no probe),
\* the request methods issued for it, the PUT requests with their payloads and
\* the statuses its MKCOL requests were answered with.
EndFile(r, outcome) ==
    [r EXCEPT !.outcomes = Append(@, [decision |-> outcome.decision,
                                      result |-> outcome.result,
                                      remotePath |-> r.remoteFilePath,
                                      probe |-> r.probe,
                                      methods |-> r.methods, puts |-> r.puts,
                                      mkcols |-> r.mkcols]),
              !.methods = {}, !.puts = << >>, !.mkcols = {}, !.probe = "none",
              !.i = @ + 1,
              !.pc = IF r.i + 1 > Len(r.files) THEN "done" ELSE "start",
              !.remoteFilePath = << >>, !.parts = << >>, !.k = 0,
              !.currentPath = << >>, !.fileBuffer = NoBytes]

Notice(h, r, kind) == [h |-> h, i |-> r.i, kind |-> kind]

\* editor.replaceSelection of the WebDAV link (the URL's percent-encoding is
\* not modelled: the link is identified by the remote path it points to)
RemoteLink(h, r) ==
    [h |-> h, i |-> r.i, kind |-> "remote", name |-> CurFile(r).name,
     target |-> EnsureLeadingSlash(r.remoteFilePath)]

\* editor.replaceSelection of the file:/// link
LocalLink(h, r) ==
    [h |-> h, i |-> r.i, kind |-> "local", name |-> CurFile(r).name,
     target |-> ReplaceBackslashes(CurFile(r).path)]

\* The handler's record once this.request(method, p, headers, body) was
\* answered with status: the methods issued for the current file, and every
\* PUT with its payload and the status it was answered with, and the statuses
\* of its MKCOL requests
Sent(r, method, p, body, status) ==
    [r EXCEPT !.methods = @ \cup {method},
              !.puts = IF method = "PUT"
                       THEN Append(@, [path |-> p, body |-> body, status |-> status])
                       ELSE @,
              !.mkcols = IF method = "MKCOL" THEN @ \cup {status} ELSE @]

\* Fail with the error escaping uploadFile: the drop handler's loop ends.
FailAbortsDrop(h, r) ==
    /\ hd' = [hd EXCEPT ![h] =
                [EndFile(r, [decision |-> "Upload", result |-> "failed"]) EXCEPT !.pc = "done"]]
    /\ notices' = Append(notices, Notice(h, r, "failed"))
    /\ doc' = doc

\* The catch block of uploadFile
Fail(h, r) ==
    /\ hd' = [hd EXCEPT ![h] = EndFile(r, [decision |-> "Upload", result |-> "failed"])]
    /\ notices' = Append(notices, Notice(h, r, "failed"))
    /\ doc' = doc

\* path.split('/').filter(p => p)
PathParts(p) == SelectSeq(Split(p), LAMBDA seg : seg # << >>)

\* The drop event listener without the test of the WebDAV settings
DropWithoutConfigurationCheck(h) ==
    /\ hd[h].pc = "idle"
    /\ \E view \in {"none", "nofile", "file"}, np \in DropNoteParents, fs \in DropLists :
         LET r == [hd[h] EXCEPT !.view = view, !.noteParent = np, !.files = fs, !.i = 1]
         IN hd' = [hd EXCEPT ![h] =
                     [r EXCEPT !.pc = IF view = "none" \/ fs = << >> THEN "done" ELSE "start"]]
    /\ UNCHANGED <<cfg, platform, store, doc, notices, sim>>

\* The drop event listener up to the loop over the files, for an active view,
\* a note folder and a list of files from the given sets
DropOf(h, views, noteParents, lists) ==
    /\ hd[h].pc = "idle"
    /\ \E view \in views, np \in noteParents, fs \in lists :
         LET r == [hd[h] EXCEPT !.view = view, !.noteParent = np, !.files = fs, !.i = 1]
         IN IF view = "none" \/ fs = << >>
            THEN /\ hd' = [hd EXCEPT ![h] = [r EXCEPT !.pc = "done"]]
                 /\ notices' = notices
            ELSE IF Unconfigured(cfg)
            THEN /\ hd' = [hd EXCEPT ![h] = [r EXCEPT !.pc = "done"]]
                 /\ notices' = Append(notices, [h |-> h, i |-> 0, kind |-> "unconfigured"])
            ELSE /\ hd' = [hd EXCEPT ![h] = [r EXCEPT !.pc = "start"]]
                 /\ notices' = notices
    /\ UNCHANGED <<cfg, platform, store, doc, sim>>

DropViews == {"none", "nofile", "file"}

\* The drop event listener up to the loop over the files
Drop(h) == DropOf(h, DropViews, DropNoteParents, DropLists)

\* uploadFile from its entry to its first await, or to its return when no
\* request is needed
StartFile(h) ==
    LET r == hd[h]
        f == CurFile(r)
        branch == PathBranch(cfg, f.path)
        remote == ResolveRemotePath(cfg, platform, r.noteParent, f.path, f.name)
        r2 == [r EXCEPT !.remoteFilePath = remote]
    IN /\ r.pc = "start"
       /\ IF r.view = "nofile"
          THEN /\ hd' = [hd EXCEPT ![h] = EndFile(r, [decision |-> "None", result |-> "nothing"])]
               /\ UNCHANGED <<doc, notices>>
          ELSE IF branch = "outside"
          THEN /\ hd' = [hd EXCEPT ![h] = EndFile(r, [decision |-> "LocalLink", result |-> "linked"])]
               /\ notices' = Append(notices, Notice(h, r, "outside"))
               /\ doc' = Append(doc, LocalLink(h, r))
          ELSE IF branch = "sync" /\ cfg.preferExistingLink
          THEN /\ hd' = [hd EXCEPT ![h] = [r2 EXCEPT !.pc = "probe"]]
               /\ UNCHANGED <<doc, notices>>
          ELSE IF remote # << >>
          THEN /\ hd' = [hd EXCEPT ![h] = [r2 EXCEPT !.pc = "checkFolder"]]
               /\ UNCHANGED <<doc, notices>>
          ELSE /\ hd' = [hd EXCEPT ![h] = EndFile(r, [decision |-> "None", result |-> "nothing"])]
               /\ UNCHANGED <<doc, notices>>
       /\ UNCHANGED <<cfg, platform, store, sim>>

\* uploadFile: await this.webdavExists(remoteFilePath), sync-folder branch
Probe(h) ==
    /\ hd[h].pc = "probe"
    /\ \E o \in Outcomes("PROPFIND", hd[h].remoteFilePath, NoBytes, store) :
         LET r == [Sent(hd[h], "PROPFIND", hd[h].remoteFilePath, NoBytes, o.status)
                       EXCEPT !.probe = WebdavExists(o.status)]
         IN /\ store' = o.store
            /\ CASE WebdavExists(o.status) = "true" ->
                       /\ notices' = Append(notices, Notice(h, r, "exists"))
                       /\ doc' = Append(doc, RemoteLink(h, r))
                       /\ hd' = [hd EXCEPT ![h] =
                                   EndFile(r, [decision |-> "LinkOnly", result |-> "linked"])]
                 [] WebdavExists(o.status) = "false" ->
                       /\ hd' = [hd EXCEPT ![h] = [r EXCEPT !.pc = "checkFolder"]]
                       /\ UNCHANGED <<doc, notices>>
                 [] OTHER -> Fail(h, r)
    /\ UNCHANGED <<cfg, platform, sim>>

\* The loop of webdavCreateDirectory staying at the part it is at
NextPartRepeats(r) == [r EXCEPT !.pc = "mkExists"]

\* webdavCreateDirectory: the loop moves to the next part, or returns
NextPart(r) ==
    IF r.k + 1 > Len(r.parts)
    THEN [r EXCEPT !.pc = "read"]
    ELSE [r EXCEPT !.pc = "mkExists", !.k = @ + 1,
                   !.currentPath = @ \o <<Slash>> \o r.parts[r.k + 1]]

\* webdavCreateDirectory(p) up to its first await
EnterCreateDirectory(r, p) ==
    LET parts == PathParts(p)
    IN IF parts = << >>
       THEN [r EXCEPT !.pc = "read"]
       ELSE [r EXCEPT !.pc = "mkExists", !.parts = parts, !.k = 1,
                      !.currentPath = <<Slash>> \o parts[1]]

\* uploadFile: await this.webdavExists(remoteFolder)
CheckFolder(h) ==
    /\ hd[h].pc = "checkFolder"
    /\ LET remoteFolder == PosixDirname(hd[h].remoteFilePath)
       IN \E o \in Outcomes("PROPFIND", remoteFolder, NoBytes, store) :
            LET r == Sent(hd[h], "PROPFIND", remoteFolder, NoBytes, o.status)
            IN /\ store' = o.store
               /\ CASE WebdavExists(o.status) = "true" ->
                          /\ hd' = [hd EXCEPT ![h] = [r EXCEPT !.pc = "read"]]
                          /\ UNCHANGED <<doc, notices>>
                    [] WebdavExists(o.status) = "false" ->
                          /\ hd' = [hd EXCEPT ![h] = EnterCreateDirectory(r, remoteFolder)]
                          /\ UNCHANGED <<doc, notices>>
                    [] OTHER -> Fail(h, r)
    /\ UNCHANGED <<cfg, platform, sim>>

\* webdavCreateDirectory: await this.webdavExists(currentPath)
MkExists(h) ==
    /\ hd[h].pc = "mkExists"
    /\ \E o \in Outcomes("PROPFIND", hd[h].currentPath, NoBytes, store) :
         LET r == Sent(hd[h], "PROPFIND", hd[h].currentPath, NoBytes, o.status)
         IN /\ store' = o.store
            /\ CASE WebdavExists(o.status) = "true" ->
                       /\ hd' = [hd EXCEPT ![h] = NextPart(r)]
                       /\ UNCHANGED <<doc, notices>>
                 [] WebdavExists(o.status) = "false" ->
                       /\ hd' = [hd EXCEPT ![h] = [r EXCEPT !.pc = "mkcol"]]
                       /\ UNCHANGED <<doc, notices>>
                 [] OTHER -> Fail(h, r)
    /\ UNCHANGED <<cfg, platform, sim>>

\* The MKCOL step with its error swallowed: the loop goes on whatever the answer
MkcolIgnoresError(h) ==
    /\ hd[h].pc = "mkcol"
    /\ \E o \in Outcomes("MKCOL", hd[h].currentPath, NoBytes, store) :
         /\ store' = o.store
         /\ hd' = [hd EXCEPT ![h] =
                     NextPart(Sent(hd[h], "MKCOL", hd[h].currentPath, NoBytes, o.status))]
    /\ UNCHANGED <<cfg, platform, doc, notices, sim>>

\* webdavCreateDirectory: await this.request('MKCOL', currentPath)
Mkcol(h) ==
    /\ hd[h].pc = "mkcol"
    /\ \E o \in Outcomes("MKCOL", hd[h].currentPath, NoBytes, store) :
         LET r == Sent(hd[h], "MKCOL", hd[h].currentPath, NoBytes, o.status)
         IN /\ store' = o.store
            /\ IF MkcolRequest(o.status) = "return"
               THEN /\ hd' = [hd EXCEPT ![h] = NextPart(r)]
                    /\ UNCHANGED <<doc, notices>>
               ELSE Fail(h, r)
    /\ UNCHANGED <<cfg, platform, sim>>

\* The bytes file.arrayBuffer() resolves with
ReadBytes(f) == f.bytes

\* uploadFile: await file.arrayBuffer(), which resolves or rejects
ReadFile(h) ==
    LET r == hd[h]
    IN /\ r.pc = "read"
       /\ \E ok \in BOOLEAN :
            IF ok
            THEN /\ hd' = [hd EXCEPT ![h] =
                             [r EXCEPT !.pc = "put", !.fileBuffer = ReadBytes(CurFile(r))]]
                 /\ notices' = Append(notices, Notice(h, r, "uploading"))
                 /\ doc' = doc
            ELSE Fail(h, r)
       /\ UNCHANGED <<cfg, platform, store, sim>>

\* uploadFile: await this.webdavPut(remoteFilePath, fileBuffer), then the link
Put(h) ==
    /\ hd[h].pc = "put"
    /\ \E o \in Outcomes("PUT", hd[h].remoteFilePath, hd[h].fileBuffer, store) :
         LET r == Sent(hd[h], "PUT", hd[h].remoteFilePath, hd[h].fileBuffer, o.status)
         IN /\ store' = o.store
            /\ IF WebdavPut(o.status) = "return"
               THEN /\ notices' = Append(notices, Notice(h, r, "success"))
                    /\ doc' = Append(doc, RemoteLink(h, r))
                    /\ hd' = [hd EXCEPT ![h] =
                                EndFile(r, [decision |-> "Upload", result |-> "linked"])]
               ELSE Fail(h, r)
    /\ UNCHANGED <<cfg, platform, sim>>

----------------------------------------------------------------------------
(* Properties of the orchestrator (specification Spec).                    *)

\* The files of drop h whose handling has ended
Finished(h) == DOMAIN hd[h].outcomes

\* The positions in the document of the links inserted for file j of drop h
LinksOf(h, j) == {n \in DOMAIN doc : doc[n].h = h /\ doc[n].i = j}

NoticesOf(h, j) == {notices[n].kind : n \in {m \in DOMAIN notices :
                                               notices[m].h = h /\ notices[m].i = j}}

Is2xx(status) == status >= 200 /\ status < 300

\* C1 (as claimed): for every dropped file with a computed remote path whose
\* handling ran to its link, in every path mode, preferExistingLink makes the
\* handler probe exists(remotePath); a true probe gives LinkOnly, no PUT and a
\* remote link; a false probe gives Upload with exactly one PUT, of the file's
\* full bytes.
C1_ProbeInEveryMode ==
    \A h \in Handlers : \A j \in Finished(h) :
        LET o == hd[h].outcomes[j]
        IN (cfg.preferExistingLink /\ o.remotePath # << >> /\ o.result = "linked")
           => /\ o.probe # "none"
              /\ o.probe = "true" =>
                    /\ o.decision = "LinkOnly"
                    /\ o.puts = << >>
                    /\ \E n \in LinksOf(h, j) : doc[n].kind = "remote"
              /\ o.probe = "false" =>
                    /\ o.decision = "Upload"
                    /\ Len(o.puts) = 1
                    /\ o.puts[1].body = hd[h].files[j].bytes

\* Reference for "outside the sync folder": the file's path, separators
\* normalised, does not begin case-insensitively with the sync folder
FileOutsideSyncFolder(f) ==
    /\ cfg.pathMode = "local"
    /\ cfg.localSyncFolder # << >> /\ cfg.remoteSyncFolder # << >>
    /\ f.path # << >>
    /\ ~StartsWith(ToLowerCase(ReplaceBackslashes(f.path)),
                   ToLowerCase(ReplaceBackslashes(StripTrailingSeps(cfg.localSyncFolder))))

\* C2: in local mode with a sync folder configured, a dropped file that has a
\* local path outside the sync folder, handled in a view with an active note,
\* always gets the decision LocalLink: no request of any kind is issued for it,
\* no remote path is computed and exactly one link, a local one, is inserted.
\* While it is being handled the handler is never at a request.
C2_OutsideSyncFolderIsLocalLink ==
    \A h \in Handlers :
        /\ \A j \in Finished(h) :
              (hd[h].view = "file" /\ FileOutsideSyncFolder(hd[h].files[j]))
              => /\ hd[h].outcomes[j].decision = "LocalLink"
                 /\ hd[h].outcomes[j].methods = {}
                 /\ hd[h].outcomes[j].puts = << >>
                 /\ hd[h].outcomes[j].remotePath = << >>
                 /\ Cardinality(LinksOf(h, j)) = 1
                 /\ \A n \in LinksOf(h, j) : doc[n].kind = "local"
        /\ (hd[h].pc \in {"probe", "checkFolder", "mkExists", "mkcol", "read", "put"})
              => ~FileOutsideSyncFolder(CurFile(hd[h]))

C2_Witness ==
    \E h \in Handlers : \E j \in Finished(h) :
        /\ FileOutsideSyncFolder(hd[h].files[j])
        /\ hd[h].outcomes[j].decision = "LocalLink"
        /\ \E n \in LinksOf(h, j) : doc[n].kind = "local"

\* C3: a failure while handling one file does not keep the following files
\* from being handled: after a failure the loop goes on to the next file, a
\* returned handler has an outcome for every dropped file, and for a drop
\* [A, B] where A's upload failed and B's succeeded there is a failure notice
\* for A, a link for B, and B's link is the only link of the drop.
C3_FailureDoesNotStopTheDrop ==
    \A h \in Handlers :
        /\ (hd[h].pc = "done" /\ hd[h].outcomes # << >>)
              => Len(hd[h].outcomes) = Len(hd[h].files)
        /\ \A j \in Finished(h) :
              hd[h].outcomes[j].result = "failed" => "failed" \in NoticesOf(h, j)
        /\ (hd[h].pc = "done" /\ Len(hd[h].files) = 2 /\ Len(hd[h].outcomes) = 2
            /\ hd[h].outcomes[1].result = "failed"
            /\ hd[h].outcomes[2].decision = "Upload"
            /\ hd[h].outcomes[2].result = "linked")
              => /\ "failed" \in NoticesOf(h, 1)
                 /\ Cardinality(LinksOf(h, 2)) = 1
                 /\ {n \in DOMAIN doc : doc[n].h = h} = LinksOf(h, 2)

C3_Witness ==
    \E h \in Handlers :
        /\ hd[h].pc = "done" /\ Len(hd[h].outcomes) = 2
        /\ hd[h].outcomes[1].result = "failed"
        /\ hd[h].outcomes[2].decision = "Upload"
        /\ hd[h].outcomes[2].result = "linked"
        /\ LinksOf(h, 2) # {}

\* C4 (as claimed): the document holds a remote link for a file whose decision
\* was Upload only if the PUT for its remote path was answered with a 2xx
\* status and the store holds the object.
C4_LinkOnlyAfterSuccessfulPut ==
    \A n \in DOMAIN doc :
        LET o == hd[doc[n].h].outcomes[doc[n].i]
        IN (doc[n].kind = "remote" /\ o.decision = "Upload")
           => /\ Len(o.puts) = 1
              /\ Is2xx(o.puts[1].status)

\* C5 (as claimed): webdavPut propagates an error for every PUT response that
\* is not 2xx, 404 included: a file whose PUT got such a response ends in the
\* catch block, without a success notice.
C5_PutFailsOnEveryNon2xx ==
    \A h \in Handlers : \A j \in Finished(h) :
        \A k \in DOMAIN hd[h].outcomes[j].puts :
            ~Is2xx(hd[h].outcomes[j].puts[k].status)
            => /\ hd[h].outcomes[j].result = "failed"
               /\ "success" \notin NoticesOf(h, j)

\* C11: when webdavUrl, username or password is missing, a drop is stopped
\* before any file is handled: no file of the drop gets an outcome or a
\* resolved path, the handler is never at a request, the store and the
\* document stay as they were, and no notice but the configuration notice is
\* shown, once for a drop of files onto a Markdown view.
C11_UnconfiguredDropIsBlocked ==
    Unconfigured(cfg)
    => /\ doc = << >>
       /\ store \in InitStores
       /\ \A n \in DOMAIN notices : notices[n].kind = "unconfigured"
       /\ \A h \in Handlers :
             /\ hd[h].pc \in {"idle", "done"}
             /\ hd[h].outcomes = << >>
             /\ hd[h].remoteFilePath = << >>
             /\ hd[h].methods = {} /\ hd[h].puts = << >>
             /\ (hd[h].pc = "done" /\ hd[h].view # "none" /\ hd[h].files # << >>)
                   => Cardinality({n \in DOMAIN notices : notices[n].h = h}) = 1

\* Files were dropped onto a note with the password missing, and the
\* configuration notice was shown.
C11_Witness ==
    \E h \in Handlers :
        /\ cfg.webdavUrl # "" /\ cfg.username # "" /\ cfg.password = ""
        /\ hd[h].pc = "done" /\ hd[h].view = "file" /\ Len(hd[h].files) = 2
        /\ notices = <<[h |-> h, i |-> 0, kind |-> "unconfigured"]>>

\* C12 (as claimed): a file resolved by the mappings when no mapping matches
\* and rootFolder is empty, and handled without an error being thrown, gets
\* an empty remote path: no MKCOL and no PUT is
\* issued for it, nothing is inserted for it, and a notice tells the user
\* that no destination could be computed.
C12_NoDestinationWithoutRootFolder ==
    \A h \in Handlers : \A j \in Finished(h) :
        LET f == hd[h].files[j]
            o == hd[h].outcomes[j]
        IN (/\ hd[h].view = "file"
            /\ PathBranch(cfg, f.path) = "mapping"
            /\ BestMatch(cfg, platform, hd[h].noteParent, f.path) = 0
            /\ cfg.rootFolder = << >>
            /\ o.result # "failed")
           => /\ o.remotePath = << >>
              /\ o.methods \cap {"MKCOL", "PUT"} = {}
              /\ LinksOf(h, j) = {}
              /\ "noDestination" \in NoticesOf(h, j)

\* The positions of uploadFile between its entry and its return
Handling == {"start", "probe", "checkFolder", "mkExists", "mkcol", "read", "put"}

C15_UploadStepsInOrderAndAbortOnError ==
    \A h \in Handlers :
        /\ hd[h].pc \in {"checkFolder", "mkExists", "mkcol"}
              => hd[h].fileBuffer = NoBytes /\ hd[h].puts = << >>
        /\ hd[h].pc \in {"mkExists", "mkcol", "read", "put"}
              => "PROPFIND" \in hd[h].methods
        /\ hd[h].pc = "read" => hd[h].puts = << >>
        /\ hd[h].pc = "put"
              => /\ hd[h].fileBuffer = CurFile(hd[h]).bytes
                 /\ hd[h].puts = << >>
                 /\ \A s \in hd[h].mkcols : MkcolRequest(s) = "return"
                 /\ LinksOf(h, hd[h].i) = {}
        /\ \A j \in Finished(h) :
              LET o == hd[h].outcomes[j]
              IN /\ Len(o.puts) <= 1
                 /\ o.puts # << >>
                       => /\ "PROPFIND" \in o.methods
                          /\ "uploading" \in NoticesOf(h, j)
                          /\ o.puts[1].path = o.remotePath
                          /\ o.puts[1].body = hd[h].files[j].bytes
                 /\ (\E s \in o.mkcols : MkcolRequest(s) = "throw")
                       => o.puts = << >> /\ o.result = "failed"
                 /\ (o.puts # << >> /\ WebdavPut(o.puts[1].status) = "throw")
                       => o.result = "failed"
                 /\ o.result = "failed"
                       => /\ "failed" \in NoticesOf(h, j)
                          /\ "success" \notin NoticesOf(h, j)
                          /\ LinksOf(h, j) = {}
                 /\ (o.decision = "Upload" /\ o.result = "linked")
                       => /\ Len(o.puts) = 1
                          /\ Cardinality(LinksOf(h, j)) = 1

\* The handling of a file ended at a MKCOL that threw, and the handling of
\* another ended at a PUT that threw.
C15_Witness ==
    \E h \in Handlers : \E j, k \in Finished(h) :
        /\ \E s \in hd[h].outcomes[j].mkcols : MkcolRequest(s) = "throw"
        /\ hd[h].outcomes[j].result = "failed"
        /\ hd[h].outcomes[k].puts # << >>
        /\ WebdavPut(hd[h].outcomes[k].puts[1].status) = "throw"
        /\ hd[h].outcomes[k].result = "failed"

Init ==
    /\ cfg \in Settings
    /\ platform = "posix"
    /\ store \in InitStores
    /\ hd = [h \in Handlers |-> IdleHandler]
    /\ doc = << >>
    /\ notices = << >>
    /\ sim = NoSim

Next ==
    \E h \in Handlers :
        \/ Drop(h)
        \/ StartFile(h)
        \/ Probe(h)
        \/ CheckFolder(h)
        \/ MkExists(h)
        \/ Mkcol(h)
        \/ ReadFile(h)
        \/ Put(h)

Spec == Init /\ [][Next]_vars

\* The continuations of a handler's awaits
Continue(h) ==
    \/ Probe(h)
    \/ CheckFolder(h)
    \/ MkExists(h)
    \/ Mkcol(h)
    \/ ReadFile(h)
    \/ Put(h)

\* The settings of the termination check: WebDAV configured, rootFolder '/',
\* one mapping, either mode, with and without the sync folder
LiveSettings ==
    {c \in Settings : ~Unconfigured(c) /\ c.rootFolder = Root /\ c.pathMappings # << >>}

InitLive == Init /\ cfg \in LiveSettings

\* Every request and every read of a file's bytes is answered or fails, and
\* the continuation of the await then runs.  The code from the entry of
\* uploadFile to its first await runs without a pause as soon as the loop calls
\* it: a handler does not stay at that position for ever, which for StartFile,
\* enabled exactly at that position, is what weak fairness requires.
SpecLive ==
    /\ InitLive
    /\ [][Next]_vars
    /\ \A h \in Handlers : WF_vars(Continue(h))
    /\ \A h \in Handlers : []<>(hd[h].pc # "start")

\* The phases of the handling of one file
Resolving == {"start", "probe"}
Uploading == {"checkFolder", "mkExists", "mkcol", "read", "put"}

\* A step with which the handling of the current file of h ends
FileEnds(h) == Len(hd'[h].outcomes) = Len(hd[h].outcomes) + 1

\* The outcome a step that ends the handling of a file records
EndedOutcome(h) == hd'[h].outcomes[Len(hd'[h].outcomes)]

\* The steps the handling of a file may take: resolving leads to uploading or
\* to an end; uploading leads on within uploading or to an end; a file ends
\* with a local link or a link to an existing remote file from resolving,
\* with the link of an upload from the PUT, each with one link added to the
\* document, or in failure with the document left as it was.
FileStep(h) ==
    /\ (hd[h].pc \in Resolving /\ ~FileEnds(h))
          => hd'[h].pc \in Resolving \cup Uploading /\ hd'[h].i = hd[h].i /\ doc' = doc
    /\ (hd[h].pc \in Uploading /\ ~FileEnds(h))
          => hd'[h].pc \in Uploading /\ hd'[h].i = hd[h].i /\ doc' = doc
    /\ FileEnds(h)
          => /\ hd[h].pc \in Resolving \cup Uploading
             /\ hd'[h].i = hd[h].i + 1
             /\ hd'[h].pc = IF hd[h].i = Len(hd[h].files) THEN "done" ELSE "start"
             /\ EndedOutcome(h).result = "linked"
                   => /\ Len(doc') = Len(doc) + 1
                      /\ \/ EndedOutcome(h).decision = "Upload" /\ hd[h].pc = "put"
                         \/ EndedOutcome(h).decision = "LinkOnly" /\ hd[h].pc = "probe"
                         \/ EndedOutcome(h).decision = "LocalLink" /\ hd[h].pc = "start"
             /\ EndedOutcome(h).result = "failed" => doc' = doc
             /\ hd[h].view = "file" => EndedOutcome(h).result \in {"linked", "failed"}

\* C18: with every request and every read answered, the handling of every
\* file of a drop onto a note ends, linked or failed; it takes only the steps
\* of FileStep; and the handler of every drop returns, a handler that entered
\* its loop having attempted every file of the drop.
C18_EveryHandlingTerminates ==
    /\ \A h \in Handlers : (hd[h].pc \in Handling) ~> (hd[h].pc = "done")
    /\ \A h \in Handlers :
          [](hd[h].pc = "done" /\ hd[h].outcomes # << >>
                => Len(hd[h].outcomes) = Len(hd[h].files))
    /\ [][\A h \in Handlers : FileStep(h)]_vars

\* A drop of two files onto a note returned after a folder was created for
\* one of them.
C18_Witness ==
    \E h \in Handlers :
        /\ hd[h].pc = "done" /\ hd[h].view = "file"
        /\ Len(hd[h].files) = 2 /\ Len(hd[h].outcomes) = 2
        /\ \E j \in 1..2 : "MKCOL" \in hd[h].outcomes[j].methods
                              /\ hd[h].outcomes[j].result = "linked"

----------------------------------------------------------------------------
(* Specification SpecClient: one call of a remote store client method on   *)
(* a response of any status.                                               *)

MaxStatus == 599

\* 0: the transport failed without a response; otherwise an HTTP status
Statuses == {0} \cup 100..MaxStatus

ClientMethods == {"webdavExists", "webdavPut", "request"}

InitClient ==
    /\ cfg \in {c \in Settings : ~Unconfigured(c) /\ c.pathMode = "note" /\ c.preferExistingLink
                                 /\ c.rootFolder = Root /\ c.pathMappings = << >>
                                 /\ c.localSyncFolder = << >>}
    /\ platform = "posix"
    /\ store = [dirs |-> {Root}, files |-> {}]
    /\ hd = [h \in Handlers |-> IdleHandler]
    /\ doc = << >>
    /\ notices = << >>
    /\ sim \in [phase : {"call"}, fn : ClientMethods, status : Statuses, result : {"pending"}]

\* The call runs to its return or to its throw
ClientCall ==
    /\ sim.phase = "call"
    /\ sim' = [sim EXCEPT !.phase = "returned",
                          !.result = CASE sim.fn = "webdavExists" -> WebdavExists(sim.status)
                                       [] sim.fn = "webdavPut" -> WebdavPut(sim.status)
                                       [] OTHER -> RequestResult(sim.status)]
    /\ UNCHANGED <<cfg, platform, store, hd, doc, notices>>

NextClient == ClientCall

SpecClient == InitClient /\ [][NextClient]_vars

\* C6: webdavExists never propagates an error; it returns true only for a
\* 2xx response, and false for a 404 and for every other failure.
C6_ExistsNeverThrows ==
    (sim.phase = "returned" /\ sim.fn = "webdavExists")
    => /\ sim.result \in {"true", "false"}
       /\ (sim.result = "true") <=> Is2xx(sim.status)

C6_Witness ==
    /\ sim.phase = "returned" /\ sim.fn = "webdavExists"
    /\ sim.status = 500 /\ sim.result = "false"

----------------------------------------------------------------------------
(* Specification SpecDir: webdavCreateDirectory(p) called twice in         *)
(* succession on a store that holds collections only and a transport that *)
(* delivers the server's answers.                                          *)

MaxDirDepth == 2

DirNames == {<<"a">>, <<"b">>}

\* Lists of at most n directory names
NameLists(n) == UNION {[1..k -> DirNames] : k \in 0..n}

\* The collection a list of names denotes
DirOf(names) == IF names = << >> THEN Root ELSE <<Slash>> \o JoinSegs(names)

\* Stores of collections: every collection's parent exists
DirStores ==
    {[dirs |-> {DirOf(l) : l \in ls} \cup {Root}, files |-> {}] :
        ls \in {s \in SUBSET (NameLists(MaxDirDepth) \ {<< >>}) :
                  \A l \in s : Len(l) = 1 \/ SubSeq(l, 1, Len(l) - 1) \in s}}

\* The ways a caller may write the path of a list of names: '/a/b', 'a/b' and
\* '/a//b/'
DirPathsOf(names) ==
    IF names = << >> THEN {Root, << >>}
    ELSE {DirOf(names),
          JoinSegs(names),
          <<Slash>> \o names[1]
              \o (IF Len(names) > 1
                  THEN <<Slash, Slash>> \o JoinSegs(Tail(names))
                  ELSE << >>)
              \o <<Slash>>}

DirPaths == UNION {DirPathsOf(l) : l \in NameLists(MaxDirDepth + 1)}

\* The state of one call of webdavCreateDirectory(p): pc "mkExists" and
\* "mkcol" are its awaits, "read" stands for the call having ended
DirCall(phase, p, before) ==
    EnterCreateDirectory(
        [phase |-> phase, p |-> p, pc |-> "read", parts |-> << >>, k |-> 0,
         currentPath |-> << >>, before |-> before, after |-> before,
         mkcols |-> <<0, 0>>, thrown |-> <<FALSE, FALSE>>], p)

CallNo == IF sim.phase = "first" THEN 1 ELSE 2

InitDir ==
    /\ cfg \in {c \in Settings : ~Unconfigured(c) /\ c.pathMode = "note" /\ c.preferExistingLink
                                 /\ c.rootFolder = Root /\ c.pathMappings = << >>
                                 /\ c.localSyncFolder = << >>}
    /\ platform = "posix"
    /\ store \in DirStores
    /\ hd = [h \in Handlers |-> IdleHandler]
    /\ doc = << >>
    /\ notices = << >>
    /\ \E p \in DirPaths : sim = DirCall("first", p, store)

\* webdavCreateDirectory: await this.webdavExists(currentPath)
DirExists ==
    /\ sim.phase \in {"first", "second"} /\ sim.pc = "mkExists"
    /\ \E o \in ReliableOutcomes("PROPFIND", sim.currentPath, NoBytes, store) :
         /\ store' = o.store
         /\ sim' = CASE WebdavExists(o.status) = "true" -> NextPart(sim)
                     [] WebdavExists(o.status) = "false" -> [sim EXCEPT !.pc = "mkcol"]
                     [] OTHER -> [sim EXCEPT !.pc = "read", !.thrown[CallNo] = TRUE]
    /\ UNCHANGED <<cfg, platform, hd, doc, notices>>

\* webdavCreateDirectory: await this.request('MKCOL', currentPath)
DirMkcol ==
    /\ sim.phase \in {"first", "second"} /\ sim.pc = "mkcol"
    /\ \E o \in ReliableOutcomes("MKCOL", sim.currentPath, NoBytes, store) :
         LET s == [sim EXCEPT !.mkcols[CallNo] = @ + 1]
         IN /\ store' = o.store
            /\ sim' = IF MkcolRequest(o.status) = "return"
                      THEN NextPart(s)
                      ELSE [s EXCEPT !.pc = "read", !.thrown[CallNo] = TRUE]
    /\ UNCHANGED <<cfg, platform, hd, doc, notices>>

\* The first call has ended: the caller calls again with the same path
DirCallAgain ==
    /\ sim.phase = "first" /\ sim.pc = "read"
    /\ sim' = [DirCall("second", sim.p, sim.before) EXCEPT
                  !.after = store, !.mkcols = sim.mkcols, !.thrown = sim.thrown]
    /\ UNCHANGED <<cfg, platform, store, hd, doc, notices>>

\* The second call has ended
DirDone ==
    /\ sim.phase = "second" /\ sim.pc = "read"
    /\ sim' = [sim EXCEPT !.phase = "done"]
    /\ UNCHANGED <<cfg, platform, store, hd, doc, notices>>

NextDir == DirExists \/ DirMkcol \/ DirCallAgain \/ DirDone

SpecDir == InitDir /\ [][NextDir]_vars

\* The collections webdavCreateDirectory(p) is to leave in existence: one for
\* every non-empty prefix of p's non-empty segments
PrefixDirs(p) ==
    LET parts == PathParts(p)
    IN {<<Slash>> \o JoinSegs(SubSeq(parts, 1, n)) : n \in 1..Len(parts)}

----------------------------------------------------------------------------
(* Specification SpecPath: the path resolver as a function of the settings, *)
(* the active note's folder and the dropped file.  The inputs are drawn     *)
(* from families: every short string over a small alphabet where a string   *)
(* is compared or joined, and the longer examples of the specification.     *)

MaxPathLen == 3
MaxSyncLen == 2
MaxFolderLen == 3
MaxMappings == 2

\* Every string over alphabet of at most n characters
Strings(alphabet, n) == UNION {[1..k -> alphabet] : k \in 0..n}

SyncAlphabet == {Slash, Backslash, "a", "A"}
FolderAlphabet == {Slash, Backslash, ".", "a"}

ExFilePng ==
    <<"C", ":", "/", "U", "s", "e", "r", "s", "/", "M", "e", "/",
      "S", "y", "n", "c", "/", "a", ".", "p", "n", "g">>
ExFilePngBackslashes ==
    <<"C", ":", "\\", "U", "s", "e", "r", "s", "\\", "M", "e", "\\",
      "S", "y", "n", "c", "\\", "a", ".", "p", "n", "g">>
ExSyncLower == <<"c", ":", "/", "u", "s", "e", "r", "s", "/", "m", "e", "/", "s", "y", "n", "c">>
ExSyncTrailing ==
    <<"C", ":", "\\", "U", "s", "e", "r", "s", "\\", "M", "e", "\\",
      "S", "y", "n", "c", "\\">>
ExRemoteSync == <<"/", "s", "y", "n", "c">>
ExFileSibling ==
    <<"/", "d", "a", "t", "a", "/", "s", "y", "n", "c", "2", "/",
      "a", ".", "p", "n", "g">>
ExSyncData == <<"/", "d", "a", "t", "a", "/", "s", "y", "n", "c">>
ExFileDrift == <<"i", "*", "/", "a">>
ExSyncDrift == <<"I*">>
ExRootDocs == <<"/", "d", "o", "c", "s">>
ExNotesSub == <<"n", "o", "t", "e", "s", "/", "/", "s", "u", "b">>
ExNamePng == <<"a", ".", "p", "n", "g">>

SyncFilePaths ==
    Strings(SyncAlphabet, MaxPathLen)
        \cup {ExFilePng, ExFilePngBackslashes, ExFileSibling, ExFileDrift}

SyncLocalFolders ==
    (Strings(SyncAlphabet, MaxSyncLen) \ {<< >>})
        \cup {ExSyncLower, ExSyncTrailing, ExSyncData, ExSyncDrift}

SyncRemoteFolders == {Root, <<"r", "/">>, ExRemoteSync}

PathMappingChoices ==
    {[localPath |-> S_n, remotePath |-> S_m],
     [localPath |-> <<"n", "/", "s">>, remotePath |-> <<"m", "/", "s", "/">>],
     [localPath |-> <<"n", "\\", "s">>, remotePath |-> <<"/", "w">>],
     [localPath |-> <<"n", "/">>, remotePath |-> <<"/", "m", "/", "t">>],
     [localPath |-> << >>, remotePath |-> <<"/", "e">>],
     [localPath |-> <<"/", "x">>, remotePath |-> Root]}

PathMappingLists == UNION {[1..k -> PathMappingChoices] : k \in 0..MaxMappings}

PathNoteParents ==
    {Root, S_n, <<"n", "/", "s">>, <<"n", "/", "s", "/", "t">>, <<"n", "\\", "s">>,
     <<"n", "s">>, ExNotesSub}

PathLocalFiles ==
    {<<"/", "x", "/", "n", "/", "a">>, <<"n", "/", "s", "/", "a">>,
     <<"\\", "x", "\\", "n", "\\", "s", "\\", "a">>,
     <<"C", ":", "\\", "n", "\\", "a">>, <<"C", ":", "\\", "a">>, <<"a">>}

PathRootFolders == {Root, << >>, ExRootDocs, <<"d", "/">>}

PathNames == {<<"a">>, ExNamePng}

Platforms == {"posix", "win32"}

PathSettings(mode, lsf, rsf, root, maps) ==
    [pathMode |-> mode, preferExistingLink |-> TRUE,
     localSyncFolder |-> lsf, remoteSyncFolder |-> rsf,
     rootFolder |-> root, pathMappings |-> maps,
     webdavUrl |-> "https://dav", username |-> "user", password |-> "secret"]

\* The result area of the simulator before a run, and after a run that was
\* refused for an empty file path
NoSimulation ==
    [kind |-> "nothing", remotePath |-> << >>, exists |-> FALSE, willUpload |-> FALSE]

PathInput(np, fp, name) ==
    [phase |-> "input", noteParent |-> np, filePath |-> fp, fileName |-> name,
     branch |-> "none", remotePath |-> << >>, best |-> 0,
     predicted |-> NoSimulation]

\* Local mode with a sync folder configured
InitPathSync ==
    /\ platform = "win32"
    /\ \E lsf \in SyncLocalFolders, rsf \in SyncRemoteFolders :
         cfg = PathSettings("local", lsf, rsf, Root, << >>)
    /\ \E fp \in SyncFilePaths : sim = PathInput(Root, fp, <<"a">>)

\* Note mode with mappings
InitPathNote ==
    /\ platform = "posix"
    /\ \E root \in PathRootFolders, maps \in PathMappingLists :
         cfg = PathSettings("note", << >>, << >>, root, maps)
    /\ \E np \in PathNoteParents, name \in PathNames :
         \E fp \in {<< >>, <<Slash, "x", Slash>> \o name} :
           sim = PathInput(np, fp, name)

\* Local mode without a complete sync folder: the mapping fallback, and the
\* note branch for a file without a local path
InitPathLocal ==
    /\ platform \in Platforms
    /\ \E root \in PathRootFolders, maps \in PathMappingLists,
          lsf \in {<< >>, S_s} :
         cfg = PathSettings("local", lsf, << >>, root, maps)
    /\ \E fp \in PathLocalFiles \cup {<< >>}, name \in PathNames :
         sim = PathInput(S_n, fp, name)

\* Note mode, every short root folder and note folder, without a mapping and
\* with a mapping that matches every folder
InitPathFolders ==
    /\ platform = "posix"
    /\ \E s \in Strings(FolderAlphabet, MaxFolderLen) :
         \/ cfg = PathSettings("note", << >>, << >>, s, << >>)
         \/ cfg = PathSettings("note", << >>, << >>, Root,
                               <<[localPath |-> << >>, remotePath |-> s]>>)
    /\ \E np \in Strings(FolderAlphabet, MaxFolderLen) \ {<< >>} :
         sim = PathInput(np, << >>, <<"a">>)

InitPath ==
    /\ store = [dirs |-> {Root}, files |-> {}]
    /\ hd = [h \in Handlers |-> IdleHandler]
    /\ doc = << >>
    /\ notices = << >>
    /\ (InitPathSync \/ InitPathNote \/ InitPathLocal \/ InitPathFolders)

Resolved ==
    [sim EXCEPT !.phase = "resolved",
                !.branch = PathBranch(cfg, sim.filePath),
                !.remotePath = ResolveRemotePath(cfg, platform, sim.noteParent,
                                                 sim.filePath, sim.fileName),
                !.best = IF PathBranch(cfg, sim.filePath) = "mapping"
                         THEN BestMatch(cfg, platform, sim.noteParent, sim.filePath)
                         ELSE 0]

\* uploadFile resolves a file inside the sync folder
ResolveSync ==
    /\ sim.phase = "input"
    /\ PathBranch(cfg, sim.filePath) = "sync"
    /\ sim' = Resolved
    /\ UNCHANGED <<cfg, platform, store, hd, doc, notices>>

\* uploadFile classifies a file as outside the sync folder
ResolveOutside ==
    /\ sim.phase = "input"
    /\ PathBranch(cfg, sim.filePath) = "outside"
    /\ sim' = Resolved
    /\ UNCHANGED <<cfg, platform, store, hd, doc, notices>>

\* uploadFile resolves a file with calculateRemotePath
ResolveMapping ==
    /\ sim.phase = "input"
    /\ PathBranch(cfg, sim.filePath) = "mapping"
    /\ sim' = Resolved
    /\ UNCHANGED <<cfg, platform, store, hd, doc, notices>>

\* needUpload of uploadFile: only the sync-folder branch probes the store
NeedUpload(branch, exists) ==
    ~(branch = "sync" /\ cfg.preferExistingLink /\ exists)

\* "开始检查" with the resolved file's path as the file path and, when
\* noteSelected, its note as the target note; exists is what webdavExists
\* answers for the simulated remote path
Simulate ==
    /\ sim.phase = "resolved"
    /\ \E noteSelected \in BOOLEAN, exists \in BOOLEAN :
         sim' = [sim EXCEPT
                   !.phase = "simulated",
                   !.predicted =
                       IF sim.filePath = << >>
                       THEN NoSimulation
                       ELSE Simulation(cfg, sim.filePath, noteSelected,
                                       sim.noteParent, exists)]
    /\ UNCHANGED <<cfg, platform, store, hd, doc, notices>>

NextPath == ResolveSync \/ ResolveOutside \/ ResolveMapping \/ Simulate

SpecPath == InitPath /\ [][NextPath]_vars

\* The mappings that match, in the sense of the branch calculateRemotePath takes
MatchingMappings ==
    IF UsesLocalBranch(cfg, sim.filePath)
    THEN {n \in 1..Len(cfg.pathMappings) :
            Includes(ReplaceBackslashes(PathDirname(platform, sim.filePath)),
                     ReplaceBackslashes(cfg.pathMappings[n].localPath))}
    ELSE {n \in 1..Len(cfg.pathMappings) :
            StartsWith(sim.noteParent, cfg.pathMappings[n].localPath)}

\* C8: when several mappings match, calculateRemotePath selects one whose
\* localPath is of the greatest length among the matching ones, in the note
\* branch and in the local branch alike, whatever the order of the list; when
\* none matches it selects none.
C8_LongestMatchingMapping ==
    (sim.phase = "resolved" /\ sim.branch = "mapping")
    => /\ (MatchingMappings = {}) = (sim.best = 0)
       /\ sim.best # 0
          => /\ sim.best \in MatchingMappings
             /\ \A n \in MatchingMappings :
                  Len(cfg.pathMappings[n].localPath)
                      <= Len(cfg.pathMappings[sim.best].localPath)

\* Two mappings match, the first one's localPath properly extends the second
\* one's, and the first is selected.
C8_Witness ==
    /\ sim.phase = "resolved"
    /\ sim.branch = "mapping"
    /\ sim.best = 1
    /\ 2 \in MatchingMappings
    /\ Len(cfg.pathMappings[1].localPath) > Len(cfg.pathMappings[2].localPath)
    /\ StartsWith(cfg.pathMappings[1].localPath, cfg.pathMappings[2].localPath)

HasDoubleSlash(s) ==
    \E i \in 1..(Len(s) - 1) : s[i] = Slash /\ s[i + 1] = Slash

\* C9: every remote path the resolver computes begins with '/' and holds no
\* two consecutive '/'; with rootFolder '/docs', no mapping and the note in
\* 'notes//sub' the remote folder is '/docs/notes/sub'.
C9_RemotePathAbsoluteAndNormalised ==
    (sim.phase = "resolved" /\ sim.branch \in {"sync", "mapping"})
    => /\ sim.remotePath # << >>
       /\ sim.remotePath[1] = Slash
       /\ ~HasDoubleSlash(sim.remotePath)
       /\ (/\ sim.branch = "mapping"
           /\ ~UsesLocalBranch(cfg, sim.filePath)
           /\ cfg.rootFolder = ExRootDocs
           /\ cfg.pathMappings = << >>
           /\ sim.noteParent = ExNotesSub)
          => sim.remotePath
                 = ExRootDocs \o <<Slash>> \o <<"n", "o", "t", "e", "s">>
                     \o <<Slash>> \o <<"s", "u", "b">> \o <<Slash>> \o sim.fileName

\* The resolver has joined a root folder and a note folder holding '//'.
C9_Witness ==
    /\ sim.phase = "resolved"
    /\ sim.branch = "mapping"
    /\ cfg.rootFolder = ExRootDocs
    /\ cfg.pathMappings = << >>
    /\ sim.noteParent = ExNotesSub
    /\ PosixDirname(sim.remotePath)
           = <<"/", "d", "o", "c", "s", "/", "n", "o", "t", "e", "s", "/", "s", "u", "b">>

\* The file path with '/' separators, and the sync folder without trailing
\* separators, with '/' separators
SlashedFilePath == ReplaceBackslashes(sim.filePath)
SlashedSyncFolder == ReplaceBackslashes(StripTrailingSeps(cfg.localSyncFolder))

\* C10: in local mode with both sync folders set, a file is inside the sync
\* folder exactly when its lower-cased path begins with the lower-cased sync
\* folder, both with '/' separators; the remote path of a file inside is the
\* remote sync folder joined with the original-case path after the first
\* len(sync folder without trailing separators) characters, one leading
\* separator trimmed; a file that is not inside is outside.
C10_CaseInsensitiveContainment ==
    (sim.phase = "resolved" /\ cfg.pathMode = "local"
        /\ SyncConfigured(cfg, sim.filePath))
    => /\ (sim.branch = "sync")
             = StartsWith(ToLowerCase(SlashedFilePath), ToLowerCase(SlashedSyncFolder))
       /\ sim.branch # "sync" => sim.branch = "outside"
       /\ sim.branch = "sync"
          => sim.remotePath
                 = EnsureLeadingSlash(
                       PosixJoin(StripOneTrailingSlash(cfg.remoteSyncFolder),
                                 StripOneLeadingSep(
                                     Slice(SlashedFilePath,
                                           Len(StripTrailingSeps(cfg.localSyncFolder))))))
       /\ (sim.filePath = ExFilePng /\ cfg.localSyncFolder = ExSyncLower
              /\ cfg.remoteSyncFolder = ExRemoteSync)
          => sim.remotePath = ExRemoteSync \o <<Slash>> \o ExNamePng

\* A file whose path differs from the sync folder in case only is resolved
\* inside it, and the remote path keeps the file's case.
C10_Witness ==
    /\ sim.phase = "resolved"
    /\ sim.branch = "sync"
    /\ sim.filePath = ExFilePng
    /\ cfg.localSyncFolder = ExSyncLower
    /\ ~StartsWith(SlashedFilePath, SlashedSyncFolder)
    /\ sim.remotePath = ExRemoteSync \o <<Slash>> \o ExNamePng

\* Reference: the first of the mappings in M with a localPath of the greatest
\* length (0 when M is empty)
FirstLongest(M) ==
    IF M = {} THEN 0
    ELSE CHOOSE n \in M :
           \A m \in M : \/ Len(cfg.pathMappings[m].localPath) < Len(cfg.pathMappings[n].localPath)
                        \/ /\ Len(cfg.pathMappings[m].localPath) = Len(cfg.pathMappings[n].localPath)
                           /\ n <= m

\* Reference, note rule: the mapping's remotePath followed by the note folder
\* without the matched prefix, or rootFolder joined with the note folder; then
\* the file name, as an absolute path
ReferenceNotePath ==
    LET best == FirstLongest({n \in 1..Len(cfg.pathMappings) :
                                StartsWith(sim.noteParent, cfg.pathMappings[n].localPath)})
        folder == IF best # 0
                  THEN PosixJoin(<<Slash>> \o cfg.pathMappings[best].remotePath,
                                 ReplaceSeparators(
                                     Slice(sim.noteParent,
                                           Len(cfg.pathMappings[best].localPath))))
                  ELSE PosixJoin(<<Slash>> \o cfg.rootFolder, sim.noteParent)
    IN PosixJoin(folder, sim.fileName)

\* Reference, local rule: the mapping's remotePath verbatim, or rootFolder;
\* then the file name, as an absolute path
ReferenceLocalPath ==
    LET best == FirstLongest({n \in 1..Len(cfg.pathMappings) :
                                Includes(ReplaceBackslashes(PathDirname(platform, sim.filePath)),
                                         ReplaceBackslashes(cfg.pathMappings[n].localPath))})
        folder == IF best # 0 THEN cfg.pathMappings[best].remotePath ELSE cfg.rootFolder
    IN PosixJoin(<<Slash>> \o folder, sim.fileName)

\* C16 (as claimed): the mapping resolver gives the note rule's path in note
\* mode and the local rule's path in local mode whenever no sync folder is
\* configured.
C16_ResolverMatchesReference ==
    (sim.phase = "resolved" /\ sim.branch = "mapping")
    => /\ cfg.pathMode = "note" => sim.remotePath = ReferenceNotePath
       /\ (cfg.pathMode = "local"
              /\ (cfg.localSyncFolder = << >> \/ cfg.remoteSyncFolder = << >>))
          => sim.remotePath = ReferenceLocalPath

\* C16 (amended): the mapping resolver gives the local rule's path in local
\* mode for a file that has a local path, and the note rule's path in note
\* mode and, in local mode, for a file without a local path.
C16_ResolverMatchesReferenceByFilePath ==
    (sim.phase = "resolved" /\ sim.branch = "mapping")
    => /\ (cfg.pathMode = "note" \/ sim.filePath = << >>)
          => sim.remotePath = ReferenceNotePath
       /\ (cfg.pathMode = "local" /\ sim.filePath # << >>)
          => sim.remotePath = ReferenceLocalPath

\* In local mode a file without a local path was resolved by a mapping that
\* matches the note's folder, to the note rule's path and not the local rule's.
C16_Witness ==
    /\ sim.phase = "resolved"
    /\ sim.branch = "mapping"
    /\ cfg.pathMode = "local"
    /\ sim.filePath = << >>
    /\ sim.best # 0
    /\ sim.remotePath = ReferenceNotePath
    /\ sim.remotePath # ReferenceLocalPath

\* Reference: p stands at the beginning of s
IsPrefixOf(p, s) == Len(p) <= Len(s) /\ \A i \in 1..Len(p) : s[i] = p[i]

\* Reference: p stands somewhere in s
OccursIn(p, s) ==
    \E k \in 0..(Len(s) - Len(p)) : \A i \in 1..Len(p) : s[k + i] = p[i]

\* The folder of the dropped file, with '/' separators
SlashedFileDir == ReplaceBackslashes(PathDirname(platform, sim.filePath))

\* C17: in note mode a mapping is selected exactly when some mapping's
\* localPath is a prefix of the note's folder path taken as it is, and the
\* selected one is such a prefix; in local mode, for a file with a local path
\* resolved by the mappings, a mapping is selected exactly when some mapping's
\* localPath, separators normalised, occurs anywhere in the folder of the
\* file, and the selected one occurs there, at the beginning or not.
C17_PrefixInNoteModeSubstringInLocalMode ==
    (sim.phase = "resolved" /\ sim.branch = "mapping")
    => /\ cfg.pathMode = "note"
          => /\ (sim.best # 0)
                   = (\E n \in DOMAIN cfg.pathMappings :
                         IsPrefixOf(cfg.pathMappings[n].localPath, sim.noteParent))
             /\ sim.best # 0
                   => IsPrefixOf(cfg.pathMappings[sim.best].localPath, sim.noteParent)
       /\ (cfg.pathMode = "local" /\ sim.filePath # << >>)
          => /\ (sim.best # 0)
                   = (\E n \in DOMAIN cfg.pathMappings :
                         OccursIn(ReplaceBackslashes(cfg.pathMappings[n].localPath),
                                  SlashedFileDir))
             /\ sim.best # 0
                   => OccursIn(ReplaceBackslashes(cfg.pathMappings[sim.best].localPath),
                               SlashedFileDir)

\* In local mode a mapping was selected whose localPath, written with a
\* backslash, occurs in the folder of the file but not at its beginning.
C17_Witness ==
    /\ sim.phase = "resolved"
    /\ sim.branch = "mapping"
    /\ cfg.pathMode = "local" /\ sim.filePath # << >>
    /\ sim.best # 0
    /\ ~IsPrefixOf(ReplaceBackslashes(cfg.pathMappings[sim.best].localPath), SlashedFileDir)
    /\ ~OccursIn(cfg.pathMappings[sim.best].localPath, PathDirname(platform, sim.filePath))

----------------------------------------------------------------------------
(* Specification SpecRace: two drop events whose handlers interleave at     *)
(* their awaits, each dropping one file into the same remote folder, over a *)
(* transport that delivers the server's own answers.                        *)

RaceHandlers == {"d1", "d2"}

FileC == [path |-> <<"/", "s", "/", "c">>, name |-> <<"c">>, bytes |-> "bytesC"]

RaceLists == {<<FileA>>, <<FileC>>}

ReliableSim == [phase |-> "reliable"]

\* Sync-folder mode ('/s' to '/r') and note mode with the mapping 'n' to '/m'
RaceSettings ==
    {c \in Settings :
        /\ ~Unconfigured(c)
        /\ c.preferExistingLink
        /\ c.rootFolder = Root
        /\ \/ /\ c.pathMode = "local" /\ c.localSyncFolder = S_s /\ c.pathMappings = << >>
           \/ /\ c.pathMode = "note" /\ c.localSyncFolder = << >> /\ c.pathMappings # << >>}

InitRace ==
    /\ cfg \in RaceSettings
    /\ platform = "posix"
    /\ store = [dirs |-> {Root}, files |-> {}]
    /\ hd = [h \in RaceHandlers |-> IdleHandler]
    /\ doc = << >>
    /\ notices = << >>
    /\ sim = ReliableSim

\* A drop event of one file onto a note in folder 'n/k'
RaceDrop(h) == DropOf(h, {"file"}, {S_nk}, RaceLists)

NextRace ==
    \E h \in RaceHandlers :
        \/ RaceDrop(h)
        \/ StartFile(h)
        \/ Probe(h)
        \/ CheckFolder(h)
        \/ MkExists(h)
        \/ Mkcol(h)
        \/ ReadFile(h)
        \/ Put(h)

SpecRace == InitRace /\ [][NextRace]_vars

\* C14 (as claimed): when the handlings of two files that need the same remote
\* folder interleave, neither fails because the other created the folder
\* first: no handling ends in failure after a MKCOL that the server answered
\* with 405, the folder existing already.
C14_InterleavedCreationTolerated ==
    \A h \in RaceHandlers : \A j \in Finished(h) :
        ~(hd[h].outcomes[j].result = "failed" /\ 405 \in hd[h].outcomes[j].mkcols)

----------------------------------------------------------------------------
(* The simulator against the drop handler.                                 *)

\* The simulator ran on the resolved file: a path was entered whose last
\* segment is the file's name, and the note was selected
SimulatedSameInput ==
    /\ sim.phase = "simulated"
    /\ sim.predicted.kind \in {"local", "remote"}
    /\ SimulatorFileName(ReplaceBackslashes(sim.filePath)) = sim.fileName

\* C19: for the same settings, file path, target note and remote store, the
\* simulator predicts what the drop handler does: the same classification
\* (local link or remote), the same remote path, and the same decision
\* between uploading and inserting the link only.
C19_SimulatorPredictsDropHandler ==
    SimulatedSameInput =>
        /\ (sim.predicted.kind = "local") <=> (sim.branch = "outside")
        /\ sim.predicted.kind = "remote" =>
              /\ sim.predicted.remotePath = sim.remotePath
              /\ sim.predicted.willUpload = NeedUpload(sim.branch, sim.predicted.exists)

----------------------------------------------------------------------------
(* Containment in the sync folder is containment in the directory tree.    *)

\* C20: in local mode with the sync folder configured, a file is classified
\* as inside the sync folder only if its normalised path is the normalised
\* sync folder or continues with a path separator right after it; a file in
\* a sibling folder whose name begins with the sync folder's name is outside.
C20_InsideOnlyWithinTheFolderTree ==
    (sim.phase = "resolved" /\ cfg.pathMode = "local"
        /\ SyncConfigured(cfg, sim.filePath) /\ sim.branch = "sync")
    => LET file == ToLowerCase(SlashedFilePath)
           folder == ToLowerCase(SlashedSyncFolder)
       IN \/ file = folder
          \/ /\ StartsWith(file, folder)
             /\ Len(file) > Len(folder)
             /\ file[Len(folder) + 1] = Slash


====
